---- MODULE Spec2Model ----
(***************************************************************************)
(* The pulp_docker sync pipeline: DockerFirstStage (the Builder), the      *)
(* content-saving stages that sit between the two, and InterrelateContent  *)
(* (the Resolver), over a registry chosen in the initial state.            *)
(***************************************************************************)
EXTENDS Integers, Sequences, FiniteSets, TLC

(* ------------------------------ bounds -------------------------------- *)
MaxTags == 2
MaxMembers == 2
MaxLayers == 2
NumBlobs == 2
NumConfigs == 2
MaxRuns == 2
MaxStubs == 2
MaxOtherWrites == 1

(* --------------------------- media types ------------------------------ *)
MANIFEST_V2 == "application/vnd.docker.distribution.manifest.v2+json"
MANIFEST_LIST == "application/vnd.docker.distribution.manifest.list.v2+json"
FOREIGN_BLOB == "application/vnd.docker.image.rootfs.foreign.diff.tar.gzip"
REGULAR_BLOB == "application/vnd.docker.image.rootfs.diff.tar.gzip"
CONFIG_BLOB == "application/vnd.docker.container.image.v1+json"
OTHER_MEDIA == "application/vnd.docker.distribution.manifest.v1+json"
NO_MEDIA == ""

(* --------------------------- the registry ----------------------------- *)
(* A digest is the hash of the bytes, so a document is its own digest:    *)
(* equal documents have equal digests and unequal ones unequal digests.   *)
BlobDigests == 1..NumBlobs
ConfigDigests == (NumBlobs + 1)..(NumBlobs + NumConfigs)
NoDigest == 0

LayerDescs == [digest : BlobDigests, mediaType : {REGULAR_BLOB, FOREIGN_BLOB}]

SeqsUpTo(S, n) == UNION {[1..k -> S] : k \in 0..n}

(* a JSON document: keys names the optional keys it has *)
Doc(mt, keys, layers, config, manifests) ==
    [mediaType |-> mt, keys |-> keys, layers |-> layers, config |-> config,
     manifests |-> manifests]

ManifestDocs ==
    {Doc(MANIFEST_V2, {"layers", "config"}, l, c, <<>>) :
        l \in SeqsUpTo(LayerDescs, MaxLayers), c \in ConfigDigests}

(* manifests with a key missing *)
PartialDocs ==
    {Doc(MANIFEST_V2, {"config"}, <<>>, c, <<>>) : c \in ConfigDigests}
    \cup {Doc(MANIFEST_V2, {"layers"}, l, NoDigest, <<>>) :
            l \in SeqsUpTo(LayerDescs, 1)}

(* manifests of exactly one regular layer *)
OneLayerDocs ==
    {d \in ManifestDocs :
        Len(d.layers) = 1 /\ d.layers[1].mediaType = REGULAR_BLOB}

ListDocs(members) ==
    {Doc(MANIFEST_LIST, {"manifests"}, <<>>, NoDigest, m) :
        m \in SeqsUpTo(members, MaxMembers)}

UnclassifiedDocs ==
    {Doc(NO_MEDIA, {}, <<>>, NoDigest, <<>>),
     Doc(OTHER_MEDIA, {}, <<>>, NoDigest, <<>>)}

(* the payloads a tag of the registry may serve *)
SharedPayloads == UnclassifiedDocs \cup OneLayerDocs \cup ListDocs(OneLayerDocs)
DeepPayloads ==
    UnclassifiedDocs \cup ManifestDocs \cup PartialDocs
    \cup {Doc(MANIFEST_LIST, {"manifests"}, <<>>, NoDigest, <<m>>) :
            m \in ManifestDocs \cup PartialDocs}

(* one image, alone and in lists, next to the unclassified documents *)
RacePayloads ==
    LET m == CHOOSE d \in OneLayerDocs : TRUE
    IN UnclassifiedDocs \cup {m} \cup ListDocs({m})

(* ------------------------------ nodes --------------------------------- *)
(* A DeclarativeContent the Builder made, named by the place that made    *)
(* it: the tag t whose fetch result was being processed, the member i of  *)
(* its manifest list (0: none), the blob j of one handle_blobs call.      *)
Node(k, t, i, j) == [k |-> k, t |-> t, i |-> i, j |-> j]
NoNode == Node("none", 0, 0, 0)

NO_RELATION == "none"

(* ------------------------------ state --------------------------------- *)
VARIABLES
    registry,               \* tag name -> the document its manifest URL serves
    include_foreign_layers, \* remote.include_foreign_layers
    run,                    \* which synchronization of the registry this is
    bpc,                    \* where DockerFirstStage.run stands
    error,                  \* the exception that ended a stage, "" if none
    to_download,            \* tag fetches not yet returned by asyncio.wait
    completed,              \* those of to_download that have completed
    done,                   \* the done set being iterated
    cur,                    \* the tag whose result is being processed
    idx,                    \* loop index (members, then blobs)
    future_manifests,       \* futures of the member stubs, as registered
    man_dcs,                \* digest -> stub node
    put_later_blob_dc,      \* blob nodes discovered, to emit last
    awaited,                \* how many of future_manifests were awaited
    dc,                     \* node -> its DeclarativeContent fields
    out,                    \* what the Builder has put, in order
    resolved,               \* stub futures, in the order they resolved
    forwarded,              \* what InterrelateContent has put, in order
    rerror,                 \* the exception that ended InterrelateContent
    store,                  \* the database tables
    others,                 \* rows a concurrent synchronization has saved
    failed,                 \* the tags and stubs whose download failed
    snapshot                \* store as the previous run left it

pipeline == <<bpc, error, to_download, completed, done, cur, idx,
              future_manifests, man_dcs, put_later_blob_dc, awaited, dc, out,
              resolved, forwarded, rerror>>
vars == <<registry, include_foreign_layers, run, pipeline, store, others,
          failed, snapshot>>

(* ------------------------------ store --------------------------------- *)
(* A table maps the unique key of its rows to the number of rows that     *)
(* carry it.                                                              *)
EmptyTable == [key \in {} |-> 0]

TableNames == {"Artifact", "ManifestList", "ImageManifest", "ManifestBlob",
               "ManifestTag", "ManifestListTag", "BlobManifestBlob",
               "ManifestListManifest"}

EmptyStore == [Artifact |-> EmptyTable, ManifestList |-> EmptyTable,
               ImageManifest |-> EmptyTable, ManifestBlob |-> EmptyTable,
               ManifestTag |-> EmptyTable, ManifestListTag |-> EmptyTable,
               BlobManifestBlob |-> EmptyTable,
               ManifestListManifest |-> EmptyTable,
               config_blob |-> EmptyTable]

(* Model.save() of a new row: the unique constraint raises IntegrityError *)
IntegrityError(table, key) == key \in DOMAIN table
insert(table, key) ==
    IF key \in DOMAIN table THEN [table EXCEPT ![key] = @ + 1]
    ELSE (key :> 1) @@ table

(* --------------------------- initial state ---------------------------- *)
InitPipeline ==
    /\ bpc = "start"
    /\ error = ""
    /\ to_download = {}
    /\ completed = {}
    /\ done = {}
    /\ cur = 0
    /\ idx = 0
    /\ future_manifests = <<>>
    /\ man_dcs = EmptyTable
    /\ put_later_blob_dc = <<>>
    /\ awaited = 0
    /\ dc = EmptyTable
    /\ out = <<>>
    /\ resolved = <<>>
    /\ forwarded = <<>>
    /\ rerror = ""

(* the member stubs a synchronization of registry r registers *)
RECURSIVE Stubs(_)
Stubs(r) ==
    IF r = <<>> THEN 0 ELSE Len(Head(r).manifests) + Stubs(Tail(r))

(* Tag names mean nothing to the code, so of the registries that differ   *)
(* by a renaming of tags one is kept: the one whose documents, written    *)
(* out as sequences of numbers, come in lexicographic order.              *)
MediaIndex(mt) ==
    IF mt = NO_MEDIA THEN 0
    ELSE IF mt = OTHER_MEDIA THEN 1
    ELSE IF mt = MANIFEST_V2 THEN 2
    ELSE IF mt = MANIFEST_LIST THEN 3
    ELSE IF mt = REGULAR_BLOB THEN 4
    ELSE 5

RECURSIVE Flat(_)
RECURSIVE FlatAll(_)
Flat(d) ==
    <<MediaIndex(d.mediaType),
      IF "layers" \in d.keys THEN 1 ELSE 0,
      IF "config" \in d.keys THEN 1 ELSE 0,
      d.config, Len(d.layers)>>
    \o [j \in 1..(2 * Len(d.layers)) |->
          IF j % 2 = 1 THEN d.layers[(j + 1) \div 2].digest
          ELSE MediaIndex(d.layers[j \div 2].mediaType)]
    \o <<Len(d.manifests)>> \o FlatAll(d.manifests)
FlatAll(ds) ==
    IF ds = <<>> THEN <<>> ELSE Flat(Head(ds)) \o FlatAll(Tail(ds))

LexLeq(s, t) ==
    \E k \in 0..Len(s) :
        /\ k <= Len(t)
        /\ \A i \in 1..k : s[i] = t[i]
        /\ \/ k = Len(s)
           \/ k < Len(t) /\ s[k + 1] < t[k + 1]

Registries(payloads, tagCounts) ==
    {r \in UNION {[1..n -> payloads] : n \in tagCounts} :
        \A a, b \in DOMAIN r : a < b => LexLeq(Flat(r[a]), Flat(r[b]))}

InitWith(payloads, tagCounts, foreign) ==
    /\ registry \in {r \in Registries(payloads, tagCounts) :
                        Stubs(r) <= MaxStubs}
    /\ include_foreign_layers \in foreign
    /\ run = 1
    /\ InitPipeline
    /\ store = EmptyStore
    /\ others = 0
    /\ failed = {}
    /\ snapshot = EmptyStore

Init == InitWith(SharedPayloads, 0..MaxTags, {FALSE})
InitDeep == InitWith(DeepPayloads, {1}, BOOLEAN)
InitRace == InitWith(RacePayloads, 0..MaxTags, {FALSE})

(* ------------------------- DockerFirstStage --------------------------- *)
(* the JSON document behind a node: json.loads of its artifact *)
content_data(n) ==
    IF n.k = "stub" THEN registry[n.t].manifests[n.i] ELSE registry[n.t]

(* the fields of a DeclarativeContent: the class of its content, the      *)
(* digest of a blob, the one key of extra_data and the node it names,     *)
(* whether tag.manifest / tag.manifest_list is set, and whether content   *)
(* is an unsaved object ("new"), a row this node saved ("saved") or a row *)
(* found in the table ("existing")                                        *)
DeclarativeContent(type, digest, content) ==
    [type |-> type, digest |-> digest, relation |-> NO_RELATION,
     target |-> NoNode, target_set |-> FALSE, content |-> content]

Append2(f, n, v) == (n :> v) @@ f

(* lines 72 and 75: what follows the result just processed *)
AfterResult(doneLeft) ==
    IF doneLeft # {} THEN "loop"
    ELSE IF to_download = {} THEN "futures" ELSE "wait"

(* CreateDownloads that waits whatever the tag list *)
CreateDownloadsWaiting ==
    /\ bpc = "start"
    /\ to_download' = DOMAIN registry
    /\ bpc' = "wait"
    /\ UNCHANGED <<registry, include_foreign_layers, others, failed, run, error, completed,
                   done, cur, idx, future_manifests, man_dcs,
                   put_later_blob_dc, awaited, dc, out, resolved,
                   forwarded, rerror, store, snapshot>>

(* lines 48-69: the tag list is read and one download per tag is created *)
CreateDownloads ==
    /\ bpc = "start"
    /\ to_download' = DOMAIN registry
    /\ bpc' = IF DOMAIN registry = {} THEN "futures" ELSE "wait"
    /\ UNCHANGED <<registry, include_foreign_layers, others, failed, run, error, completed,
                   done, cur, idx, future_manifests, man_dcs,
                   put_later_blob_dc, awaited, dc, out, resolved,
                   forwarded, rerror, store, snapshot>>

(* the remote answers the manifest request of tag t *)
FetchCompletes(t) ==
    /\ t \in to_download \ completed
    /\ completed' = completed \cup {t}
    /\ UNCHANGED <<registry, include_foreign_layers, others, failed, run, bpc, error,
                   to_download, done, cur, idx, future_manifests, man_dcs,
                   put_later_blob_dc, awaited, dc, out, resolved,
                   forwarded, rerror, store, snapshot>>

(* the request of tag t fails: its download completes with an exception *)
FetchFails(t) ==
    /\ t \in to_download \ completed
    /\ completed' = completed \cup {t}
    /\ failed' = failed \cup {Node("tag", t, 0, 0)}
    /\ UNCHANGED <<registry, include_foreign_layers, others, run, bpc, error,
                   to_download, done, cur, idx, future_manifests, man_dcs,
                   put_later_blob_dc, awaited, dc, out, resolved,
                   forwarded, rerror, store, snapshot>>

(* Wait keeping one of the completed fetches and losing the others *)
WaitFirstOnly ==
    /\ bpc = "wait"
    /\ completed # {}
    /\ \E t \in completed : done' = {t}
    /\ to_download' = to_download \ completed
    /\ completed' = {}
    /\ bpc' = "loop"
    /\ UNCHANGED <<registry, include_foreign_layers, others, failed, run, error, cur, idx,
                   future_manifests, man_dcs, put_later_blob_dc, awaited, dc,
                   out, resolved, forwarded, rerror, store, snapshot>>

(* Wait that returns only when the first fetch of the list has completed *)
WaitInOrder ==
    /\ bpc = "wait"
    /\ \E first \in to_download :
          /\ \A t \in to_download : first <= t
          /\ first \in completed
    /\ done' = completed
    /\ to_download' = to_download \ completed
    /\ completed' = {}
    /\ bpc' = "loop"
    /\ UNCHANGED <<registry, include_foreign_layers, others, failed, run, error, cur, idx,
                   future_manifests, man_dcs, put_later_blob_dc, awaited, dc,
                   out, resolved, forwarded, rerror, store, snapshot>>

(* lines 73-74: asyncio.wait(to_download, return_when=FIRST_COMPLETED) *)
Wait ==
    /\ bpc = "wait"
    /\ completed # {}
    /\ done' = completed
    /\ to_download' = to_download \ completed
    /\ completed' = {}
    /\ bpc' = "loop"
    /\ UNCHANGED <<registry, include_foreign_layers, others, failed, run, error, cur, idx,
                   future_manifests, man_dcs, put_later_blob_dc, awaited, dc,
                   out, resolved, forwarded, rerror, store, snapshot>>

(* lines 79-85: the artifact of the payload is saved, or found; the second *)
(* definition below is the save that goes through on a conflict           *)
saved_artifact(t) ==
    IF IntegrityError(store.Artifact, registry[t]) THEN "existing"
    ELSE "saved"
ArtifactSavedAgain(t) == insert(store.Artifact, registry[t])
ArtifactSaved(t) ==
    IF IntegrityError(store.Artifact, registry[t]) THEN store.Artifact
    ELSE insert(store.Artifact, registry[t])

(* ResultRaises that passes over the failed download *)
ResultIgnored(t) ==
    /\ bpc = "loop"
    /\ t \in done
    /\ Node("tag", t, 0, 0) \in failed
    /\ done' = done \ {t}
    /\ bpc' = AfterResult(done')
    /\ UNCHANGED <<registry, include_foreign_layers, others, failed, run, error,
                   to_download, completed, cur, idx, future_manifests, man_dcs,
                   put_later_blob_dc, awaited, dc, out, resolved,
                   forwarded, rerror, store, snapshot>>

(* line 76: downloader.result() raises the exception of a failed download *)
ResultRaises(t) ==
    /\ bpc = "loop"
    /\ t \in done
    /\ Node("tag", t, 0, 0) \in failed
    /\ done' = done \ {t}
    /\ cur' = t
    /\ bpc' = "aborted"
    /\ error' = "DownloadError"
    /\ UNCHANGED <<registry, include_foreign_layers, others, failed, run,
                   to_download, completed, idx, future_manifests, man_dcs,
                   put_later_blob_dc, awaited, dc, out, resolved,
                   forwarded, rerror, store, snapshot>>

(* lines 173-176: the class of the tag, none for any other media type *)
create_tag(mediatype) ==
    IF mediatype = MANIFEST_LIST THEN "ManifestListTag"
    ELSE IF mediatype = MANIFEST_V2 THEN "ManifestTag"
    ELSE "UnboundLocalError"

(* SkipResult that fails on the missing key *)
SkipResultRaising(t) ==
    /\ bpc = "loop"
    /\ t \in done
    /\ Node("tag", t, 0, 0) \notin failed
    /\ registry[t].mediaType = NO_MEDIA
    /\ store' = [store EXCEPT !.Artifact = ArtifactSaved(t)]
    /\ done' = done \ {t}
    /\ bpc' = "aborted"
    /\ error' = "KeyError"
    /\ UNCHANGED <<registry, include_foreign_layers, others, failed, run, to_download,
                   completed, cur, idx, future_manifests, man_dcs,
                   put_later_blob_dc, awaited, dc, out, resolved,
                   forwarded, rerror, snapshot>>

(* lines 76-88, 112-113: a payload without mediaType is skipped *)
SkipResult(t) ==
    /\ bpc = "loop"
    /\ t \in done
    /\ Node("tag", t, 0, 0) \notin failed
    /\ registry[t].mediaType = NO_MEDIA
    /\ store' = [store EXCEPT !.Artifact = ArtifactSaved(t)]
    /\ done' = done \ {t}
    /\ bpc' = AfterResult(done')
    /\ UNCHANGED <<registry, include_foreign_layers, others, failed, run, error, to_download,
                   completed, cur, idx, future_manifests, man_dcs,
                   put_later_blob_dc, awaited, dc, out, resolved,
                   forwarded, rerror, snapshot>>

(* lines 76-89, 173-177: create_tag leaves tag unbound and raises *)
CreateTagRaises(t) ==
    /\ bpc = "loop"
    /\ t \in done
    /\ Node("tag", t, 0, 0) \notin failed
    /\ registry[t].mediaType # NO_MEDIA
    /\ create_tag(registry[t].mediaType) = "UnboundLocalError"
    /\ store' = [store EXCEPT !.Artifact = ArtifactSaved(t)]
    /\ done' = done \ {t}
    /\ cur' = t
    /\ bpc' = "aborted"
    /\ error' = "UnboundLocalError"
    /\ UNCHANGED <<registry, include_foreign_layers, others, failed, run, to_download,
                   completed, idx, future_manifests, man_dcs,
                   put_later_blob_dc, awaited, dc, out, resolved,
                   forwarded, rerror, snapshot>>

(* lines 213-222: list_dc.content.save(), or the existing row; the second *)
(* definition below is the save that goes through on a conflict           *)
list_content(digest) ==
    IF IntegrityError(store.ManifestList, digest) THEN "existing" ELSE "saved"
ManifestListSavedAgain(digest) == insert(store.ManifestList, digest)
ManifestListSaved(digest) ==
    IF IntegrityError(store.ManifestList, digest) THEN store.ManifestList
    ELSE insert(store.ManifestList, digest)

(* lines 76-93: a manifest list: tag_dc and list_dc are made, list_dc put *)
PutList(t) ==
    /\ bpc = "loop"
    /\ t \in done
    /\ Node("tag", t, 0, 0) \notin failed
    /\ create_tag(registry[t].mediaType) = "ManifestListTag"
    /\ store' = [store EXCEPT !.Artifact = ArtifactSaved(t),
                              !.ManifestList = ManifestListSaved(registry[t])]
    /\ dc' = Append2(Append2(dc, Node("tag", t, 0, 0),
                       DeclarativeContent("ManifestListTag", NoDigest, "new")),
                     Node("list", t, 0, 0),
                     DeclarativeContent("ManifestList", NoDigest,
                                        list_content(registry[t])))
    /\ out' = Append(out, Node("list", t, 0, 0))
    /\ done' = done \ {t}
    /\ cur' = t
    /\ bpc' = "list"
    /\ UNCHANGED <<registry, include_foreign_layers, others, failed, run, error, to_download,
                   completed, idx, future_manifests, man_dcs,
                   put_later_blob_dc, awaited, resolved, forwarded,
                   rerror, snapshot>>

(* RelateList with the marker left off the tag *)
RelateListUnmarked ==
    /\ bpc = "list"
    /\ dc' = [dc EXCEPT ![Node("tag", cur, 0, 0)] = [@ EXCEPT !.target_set = TRUE]]
    /\ idx' = 0
    /\ bpc' = "members"
    /\ UNCHANGED <<registry, include_foreign_layers, others, failed, run, error, to_download,
                   completed, done, cur, future_manifests, man_dcs,
                   put_later_blob_dc, awaited, out, resolved,
                   forwarded, rerror, store, snapshot>>

(* lines 94-96: the tag gets its marker and its manifest_list *)
RelateList ==
    /\ bpc = "list"
    /\ dc' = [dc EXCEPT ![Node("tag", cur, 0, 0)] =
                [@ EXCEPT !.relation = "list_relation",
                          !.target = Node("list", cur, 0, 0),
                          !.target_set = TRUE]]
    /\ idx' = 0
    /\ bpc' = "members"
    /\ UNCHANGED <<registry, include_foreign_layers, others, failed, run, error, to_download,
                   completed, done, cur, future_manifests, man_dcs,
                   put_later_blob_dc, awaited, out, resolved,
                   forwarded, rerror, store, snapshot>>

(* PutMember without the future of the stub *)
PutMemberNoFuture ==
    /\ bpc = "members"
    /\ idx < Len(registry[cur].manifests)
    /\ LET man_dc == Node("stub", cur, idx + 1, 0)
       IN /\ dc' = Append2(dc, man_dc,
                     [DeclarativeContent("ImageManifest", NoDigest, "new")
                        EXCEPT !.relation = "relation",
                               !.target = Node("list", cur, 0, 0)])
          /\ man_dcs' = Append2(man_dcs, content_data(man_dc), man_dc)
          /\ out' = Append(out, man_dc)
    /\ idx' = idx + 1
    /\ UNCHANGED <<registry, include_foreign_layers, others, failed, run, bpc, error,
                   to_download, completed, done, cur, put_later_blob_dc,
                   future_manifests, awaited, resolved, forwarded, rerror,
                   store, snapshot>>

(* lines 97-102, 253-285: the stub of the next member is made and put *)
PutMember ==
    /\ bpc = "members"
    /\ idx < Len(registry[cur].manifests)
    /\ LET man_dc == Node("stub", cur, idx + 1, 0)
       IN /\ dc' = Append2(dc, man_dc,
                     [DeclarativeContent("ImageManifest", NoDigest, "new")
                        EXCEPT !.relation = "relation",
                               !.target = Node("list", cur, 0, 0)])
          /\ future_manifests' = Append(future_manifests, man_dc)
          /\ man_dcs' = Append2(man_dcs, content_data(man_dc), man_dc)
          /\ out' = Append(out, man_dc)
    /\ idx' = idx + 1
    /\ UNCHANGED <<registry, include_foreign_layers, others, failed, run, bpc, error,
                   to_download, completed, done, cur, put_later_blob_dc,
                   awaited, resolved, forwarded, rerror, store,
                   snapshot>>

(* _include_layer that never excludes *)
_include_layer_always(layer) == TRUE

(* lines 316-332 *)
_include_layer(layer) ==
    LET foreign_excluded == ~include_foreign_layers
        is_foreign == (layer.mediaType = FOREIGN_BLOB)
    IN IF is_foreign /\ foreign_excluded THEN FALSE ELSE TRUE

(* lines 287-314, with the marker handle_blobs sets on the result *)
create_and_process_blob(man, blob_data, relation) ==
    [DeclarativeContent("ManifestBlob", blob_data.digest, "new")
        EXCEPT !.relation = relation, !.target = man]

(* lines 139-152: the blob nodes one call appends to put_later_blob_dc,   *)
(* and whether it raises: content_data.get() of a missing key is None,    *)
(* which the for loop cannot iterate and blob_data['digest'] cannot index *)
handle_blobs(man, cd) ==
    LET layers == SelectSeq(cd.layers, _include_layer)
        layer_dcs == [j \in 1..Len(layers) |->
                        create_and_process_blob(man, layers[j], "blob_relation")]
        config == [digest |-> cd.config, mediaType |-> CONFIG_BLOB]
    IN IF "layers" \notin cd.keys
       THEN [raises |-> TRUE, blob_dcs |-> <<>>]
       ELSE IF "config" \notin cd.keys
       THEN [raises |-> TRUE, blob_dcs |-> layer_dcs]
       ELSE [raises |-> FALSE,
             blob_dcs |-> Append(layer_dcs,
                 create_and_process_blob(man, config, "config_relation"))]

(* the nodes of the blobs a handle_blobs call made, for the call made    *)
(* while processing `site` (a tagged manifest or an awaited stub)         *)
BlobNodes(site, blob_dcs) ==
    [j \in 1..Len(blob_dcs) |-> Node("blob", site.t, site.i, j)]

WithBlobs(f, site, blob_dcs) ==
    LET ids == BlobNodes(site, blob_dcs)
        new == {ids[j] : j \in 1..Len(ids)}
    IN [n \in DOMAIN f \cup new |->
          IF n \in new THEN blob_dcs[n.j] ELSE f[n]]

(* PutManifest without the put of man_dc *)
PutManifestUnput(t) ==
    /\ bpc = "loop"
    /\ t \in done
    /\ Node("tag", t, 0, 0) \notin failed
    /\ create_tag(registry[t].mediaType) = "ManifestTag"
    /\ store' = [store EXCEPT !.Artifact = ArtifactSaved(t)]
    /\ dc' = Append2(Append2(dc, Node("tag", t, 0, 0),
                       DeclarativeContent("ManifestTag", NoDigest, "new")),
                     Node("man", t, 0, 0),
                     DeclarativeContent("ImageManifest", NoDigest, "new"))
    /\ done' = done \ {t}
    /\ cur' = t
    /\ bpc' = "manifest"
    /\ UNCHANGED <<registry, include_foreign_layers, others, failed, run, error, to_download,
                   completed, idx, future_manifests, man_dcs,
                   put_later_blob_dc, awaited, out, resolved, forwarded,
                   rerror, snapshot>>

(* lines 76-89, 103-105: a manifest: tag_dc and man_dc are made, man_dc put *)
PutManifest(t) ==
    /\ bpc = "loop"
    /\ t \in done
    /\ Node("tag", t, 0, 0) \notin failed
    /\ create_tag(registry[t].mediaType) = "ManifestTag"
    /\ store' = [store EXCEPT !.Artifact = ArtifactSaved(t)]
    /\ dc' = Append2(Append2(dc, Node("tag", t, 0, 0),
                       DeclarativeContent("ManifestTag", NoDigest, "new")),
                     Node("man", t, 0, 0),
                     DeclarativeContent("ImageManifest", NoDigest, "new"))
    /\ out' = Append(out, Node("man", t, 0, 0))
    /\ done' = done \ {t}
    /\ cur' = t
    /\ bpc' = "manifest"
    /\ UNCHANGED <<registry, include_foreign_layers, others, failed, run, error, to_download,
                   completed, idx, future_manifests, man_dcs,
                   put_later_blob_dc, awaited, resolved, forwarded,
                   rerror, snapshot>>

(* RelateManifest that also assigns the manifest to the tag, as line 96   *)
(* does for a list                                                        *)
RelateManifestAssigning ==
    /\ bpc = "manifest"
    /\ LET man_dc == Node("man", cur, 0, 0)
           h == handle_blobs(man_dc, content_data(man_dc))
       IN /\ dc' = WithBlobs(
                     [dc EXCEPT ![Node("tag", cur, 0, 0)] =
                        [@ EXCEPT !.relation = "man_relation",
                                  !.target_set = TRUE,
                                  !.target = man_dc]],
                     man_dc, h.blob_dcs)
          /\ put_later_blob_dc' =
                put_later_blob_dc \o BlobNodes(man_dc, h.blob_dcs)
          /\ bpc' = IF h.raises THEN "aborted" ELSE "tag"
          /\ error' = IF h.raises THEN "TypeError" ELSE error
    /\ UNCHANGED <<registry, include_foreign_layers, others, failed, run, to_download,
                   completed, done, cur, idx, future_manifests, man_dcs,
                   awaited, out, resolved, forwarded, rerror, store,
                   snapshot>>

(* RelateManifest that puts the marker on the manifest, naming the tag *)
RelateManifestReversed ==
    /\ bpc = "manifest"
    /\ LET man_dc == Node("man", cur, 0, 0)
           h == handle_blobs(man_dc, content_data(man_dc))
       IN /\ dc' = WithBlobs(
                     [dc EXCEPT ![man_dc] =
                        [@ EXCEPT !.relation = "man_relation",
                                  !.target = Node("tag", cur, 0, 0)]],
                     man_dc, h.blob_dcs)
          /\ put_later_blob_dc' =
                put_later_blob_dc \o BlobNodes(man_dc, h.blob_dcs)
          /\ bpc' = IF h.raises THEN "aborted" ELSE "tag"
          /\ error' = IF h.raises THEN "TypeError" ELSE error
    /\ UNCHANGED <<registry, include_foreign_layers, others, failed, run, to_download,
                   completed, done, cur, idx, future_manifests, man_dcs,
                   awaited, out, resolved, forwarded, rerror, store,
                   snapshot>>

(* lines 106-108: the tag gets its marker, the manifest's blobs are found *)
RelateManifest ==
    /\ bpc = "manifest"
    /\ LET man_dc == Node("man", cur, 0, 0)
           h == handle_blobs(man_dc, content_data(man_dc))
       IN /\ dc' = WithBlobs(
                     [dc EXCEPT ![Node("tag", cur, 0, 0)] =
                        [@ EXCEPT !.relation = "man_relation",
                                  !.target = man_dc]],
                     man_dc, h.blob_dcs)
          /\ put_later_blob_dc' =
                put_later_blob_dc \o BlobNodes(man_dc, h.blob_dcs)
          /\ bpc' = IF h.raises THEN "aborted" ELSE "tag"
          /\ error' = IF h.raises THEN "TypeError" ELSE error
    /\ UNCHANGED <<registry, include_foreign_layers, others, failed, run, to_download,
                   completed, done, cur, idx, future_manifests, man_dcs,
                   awaited, out, resolved, forwarded, rerror, store,
                   snapshot>>

(* lines 109-110: the tag is put after its target *)
PutTag ==
    /\ \/ bpc = "tag"
       \/ bpc = "members" /\ idx = Len(registry[cur].manifests)
    /\ out' = Append(out, Node("tag", cur, 0, 0))
    /\ idx' = 0
    /\ bpc' = AfterResult(done)
    /\ UNCHANGED <<registry, include_foreign_layers, others, failed, run, error, to_download,
                   completed, done, cur, future_manifests, man_dcs,
                   put_later_blob_dc, awaited, dc, resolved,
                   forwarded, rerror, store, snapshot>>

(* AwaitFuture that goes on without the future being resolved *)
AwaitFutureUnresolved ==
    /\ bpc = "futures"
    /\ awaited < Len(future_manifests)
    /\ LET man == future_manifests[awaited + 1]
           man_dc == man_dcs[content_data(man)]
           h == handle_blobs(man_dc, content_data(man))
       IN /\ dc' = WithBlobs(dc, man, h.blob_dcs)
          /\ put_later_blob_dc' = put_later_blob_dc \o BlobNodes(man, h.blob_dcs)
          /\ bpc' = IF h.raises THEN "aborted" ELSE bpc
          /\ error' = IF h.raises THEN "TypeError" ELSE error
    /\ awaited' = awaited + 1
    /\ UNCHANGED <<registry, include_foreign_layers, others, failed, run, to_download,
                   completed, done, cur, idx, future_manifests, man_dcs, out,
                   resolved, forwarded, rerror, store, snapshot>>

(* lines 128-134: the next completed stub future is awaited, and the     *)
(* blobs of its manifest are found for the node man_dcs has at its digest *)
AwaitFuture ==
    /\ bpc = "futures"
    /\ awaited < Len(future_manifests)
    /\ awaited < Len(resolved)
    /\ resolved[awaited + 1] \notin failed
    /\ LET man == resolved[awaited + 1]
           man_dc == man_dcs[content_data(man)]
           h == handle_blobs(man_dc, content_data(man))
       IN /\ dc' = WithBlobs(dc, man, h.blob_dcs)
          /\ put_later_blob_dc' = put_later_blob_dc \o BlobNodes(man, h.blob_dcs)
          /\ bpc' = IF h.raises THEN "aborted" ELSE bpc
          /\ error' = IF h.raises THEN "TypeError" ELSE error
    /\ awaited' = awaited + 1
    /\ UNCHANGED <<registry, include_foreign_layers, others, failed, run, to_download,
                   completed, done, cur, idx, future_manifests, man_dcs, out,
                   resolved, forwarded, rerror, store, snapshot>>

(* line 129: the await of a future that completed with an exception raises *)
AwaitRaises ==
    /\ bpc = "futures"
    /\ awaited < Len(future_manifests)
    /\ awaited < Len(resolved)
    /\ resolved[awaited + 1] \in failed
    /\ awaited' = awaited + 1
    /\ bpc' = "aborted"
    /\ error' = "DownloadError"
    /\ UNCHANGED <<registry, include_foreign_layers, others, failed, run,
                   to_download, completed, done, cur, idx, future_manifests,
                   man_dcs, put_later_blob_dc, dc, out, resolved, forwarded,
                   rerror, store, snapshot>>

(* PutBlob that does not wait for the futures to be awaited *)
PutBlobEarly ==
    /\ bpc = "futures"
    /\ idx < Len(put_later_blob_dc)
    /\ out' = Append(out, put_later_blob_dc[idx + 1])
    /\ idx' = idx + 1
    /\ UNCHANGED <<registry, include_foreign_layers, others, failed, run, bpc, error,
                   to_download, completed, done, cur, future_manifests,
                   man_dcs, put_later_blob_dc, awaited, dc, resolved,
                   forwarded, rerror, store, snapshot>>

(* lines 135-137: the blobs are put, in the order they were found *)
PutBlob ==
    /\ bpc = "futures"
    /\ awaited = Len(future_manifests)
    /\ idx < Len(put_later_blob_dc)
    /\ out' = Append(out, put_later_blob_dc[idx + 1])
    /\ idx' = idx + 1
    /\ UNCHANGED <<registry, include_foreign_layers, others, failed, run, bpc, error,
                   to_download, completed, done, cur, future_manifests,
                   man_dcs, put_later_blob_dc, awaited, dc, resolved,
                   forwarded, rerror, store, snapshot>>

(* Finish that does not wait for the futures *)
FinishUnawaited ==
    /\ bpc = "futures"
    /\ idx = Len(put_later_blob_dc)
    /\ bpc' = "finished"
    /\ UNCHANGED <<registry, include_foreign_layers, others, failed, run, error, to_download,
                   completed, done, cur, idx, future_manifests, man_dcs,
                   put_later_blob_dc, awaited, dc, out, resolved,
                   forwarded, rerror, store, snapshot>>

(* line 137: run returns, which closes the stage's output *)
Finish ==
    /\ bpc = "futures"
    /\ awaited = Len(future_manifests)
    /\ idx = Len(put_later_blob_dc)
    /\ bpc' = "finished"
    /\ UNCHANGED <<registry, include_foreign_layers, others, failed, run, error, to_download,
                   completed, done, cur, idx, future_manifests, man_dcs,
                   put_later_blob_dc, awaited, dc, out, resolved,
                   forwarded, rerror, store, snapshot>>

(* ----------------------- the stages in between ------------------------ *)
(* the key of the row behind a node's content *)
natural_key(n) ==
    IF dc[n].type = "ManifestBlob" THEN dc[n].digest
    ELSE IF dc[n].type \in {"ManifestTag", "ManifestListTag"}
    THEN <<n.t, content_data(dc[n].target)>>
    ELSE content_data(n)

(* The stages between the two download and save content: a node reaches  *)
(* the Resolver with its manifest or blob created, or resolved to the row *)
(* that has its digest.                                                   *)
saved_content(n) ==
    IF dc[n].type \in {"ImageManifest", "ManifestBlob"} /\ dc[n].content = "new"
    THEN IF IntegrityError(store[dc[n].type], natural_key(n))
         THEN "existing" ELSE "saved"
    ELSE dc[n].content
ContentSaved(n) ==
    IF saved_content(n) = "saved" /\ dc[n].content = "new"
    THEN [store EXCEPT ![dc[n].type] = insert(@, natural_key(n))]
    ELSE store

(* The future of a stub resolves once the stub's manifest is downloaded;  *)
(* stubs that were put resolve in any order.                              *)
ResolveFuture(n) ==
    /\ n.k = "stub"
    /\ \E p \in 1..Len(out) : out[p] = n
    /\ \A p \in 1..Len(resolved) : resolved[p] # n
    /\ resolved' = Append(resolved, n)
    /\ UNCHANGED <<registry, include_foreign_layers, others, failed, run, bpc, error,
                   to_download, completed, done, cur, idx, future_manifests,
                   man_dcs, put_later_blob_dc, awaited, dc, out,
                   forwarded, rerror, store, snapshot>>

(* The download of a stub's manifest fails: its future completes with the *)
(* failure instead of the manifest.                                       *)
FutureFails(n) ==
    /\ n.k = "stub"
    /\ \E p \in 1..Len(out) : out[p] = n
    /\ \A p \in 1..Len(resolved) : resolved[p] # n
    /\ resolved' = Append(resolved, n)
    /\ failed' = failed \cup {n}
    /\ UNCHANGED <<registry, include_foreign_layers, others, run, bpc, error,
                   to_download, completed, done, cur, idx, future_manifests,
                   man_dcs, put_later_blob_dc, awaited, dc, out,
                   forwarded, rerror, store, snapshot>>

(* ------------------------ InterrelateContent -------------------------- *)
(* what a relate_* call leaves: the tables, the nodes, the exception *)
Related(st, d, raises) == [store |-> st, dc |-> d, raises |-> raises]

(* a foreign key to an object that was never saved cannot be saved *)
unsaved(d, n) == d[n].content = "new"

(* relate_config_blob leaving the manifest's config_blob as it is *)
relate_config_blob_unset(n, st, d) == Related(st, d, "")

(* lines 359-368 *)
relate_config_blob(n, st, d) ==
    LET configured_dc == d[n].target
    IN IF unsaved(d, n) \/ unsaved(d, configured_dc)
       THEN Related(st, d, "ValueError")
       ELSE Related([st EXCEPT !.config_blob =
                        Append2(@, content_data(configured_dc), d[n].digest)],
                    d, "")

(* relate_blob without the except clause *)
relate_blob_uncaught(n, st, d) ==
    LET related_dc == d[n].target
        thru == <<content_data(related_dc), d[n].digest>>
    IN IF unsaved(d, n) \/ unsaved(d, related_dc)
       THEN Related(st, d, "ValueError")
       ELSE IF IntegrityError(st.BlobManifestBlob, thru)
       THEN Related(st, d, "IntegrityError")
       ELSE Related([st EXCEPT !.BlobManifestBlob = insert(@, thru)], d, "")

(* relate_blob writing no edge to a Blob row that was there already *)
relate_blob_new_only(n, st, d) ==
    LET related_dc == d[n].target
        thru == <<content_data(related_dc), d[n].digest>>
    IN IF unsaved(d, n) \/ unsaved(d, related_dc)
       THEN Related(st, d, "ValueError")
       ELSE IF IntegrityError(st.BlobManifestBlob, thru)
               \/ d[n].content = "existing"
       THEN Related(st, d, "")
       ELSE Related([st EXCEPT !.BlobManifestBlob = insert(@, thru)], d, "")

(* lines 370-382 *)
relate_blob(n, st, d) ==
    LET related_dc == d[n].target
        thru == <<content_data(related_dc), d[n].digest>>
    IN IF unsaved(d, n) \/ unsaved(d, related_dc)
       THEN Related(st, d, "ValueError")
       ELSE IF IntegrityError(st.BlobManifestBlob, thru)
       THEN Related(st, d, "")
       ELSE Related([st EXCEPT !.BlobManifestBlob = insert(@, thru)], d, "")

(* relate_manifest without the except clause *)
relate_manifest_uncaught(n, st, d) ==
    LET related_dc == d[n].target
        key == <<n.t, content_data(related_dc)>>
    IN IF d[n].target_set
       THEN Related(st, d, "AssertionError")
       ELSE IF unsaved(d, related_dc)
       THEN Related(st, d, "ValueError")
       ELSE IF IntegrityError(st.ManifestTag, key)
       THEN Related(st, [d EXCEPT ![n].target_set = TRUE], "IntegrityError")
       ELSE Related([st EXCEPT !.ManifestTag = insert(@, key)],
                    [d EXCEPT ![n].target_set = TRUE, ![n].content = "saved"],
                    "")

(* lines 384-399 *)
relate_manifest(n, st, d) ==
    LET related_dc == d[n].target
        key == <<n.t, content_data(related_dc)>>
    IN IF d[n].target_set
       THEN Related(st, d, "AssertionError")
       ELSE IF unsaved(d, related_dc)
       THEN Related(st, d, "ValueError")
       ELSE IF IntegrityError(st.ManifestTag, key)
       THEN Related(st,
                    [d EXCEPT ![n].target_set = TRUE, ![n].content = "existing"],
                    "")
       ELSE Related([st EXCEPT !.ManifestTag = insert(@, key)],
                    [d EXCEPT ![n].target_set = TRUE, ![n].content = "saved"],
                    "")

(* relate_manifest_to_list without the except clause *)
relate_manifest_to_list_uncaught(n, st, d) ==
    LET related_dc == d[n].target
        thru == <<content_data(related_dc), content_data(n)>>
    IN IF unsaved(d, n) \/ unsaved(d, related_dc)
       THEN Related(st, d, "ValueError")
       ELSE IF IntegrityError(st.ManifestListManifest, thru)
       THEN Related(st, d, "IntegrityError")
       ELSE Related([st EXCEPT !.ManifestListManifest = insert(@, thru)],
                    d, "")

(* lines 401-413 *)
relate_manifest_to_list(n, st, d) ==
    LET related_dc == d[n].target
        thru == <<content_data(related_dc), content_data(n)>>
    IN IF unsaved(d, n) \/ unsaved(d, related_dc)
       THEN Related(st, d, "ValueError")
       ELSE IF IntegrityError(st.ManifestListManifest, thru)
       THEN Related(st, d, "")
       ELSE Related([st EXCEPT !.ManifestListManifest = insert(@, thru)],
                    d, "")

(* lines 415-432 *)
relate_manifest_list(n, st, d) ==
    LET related_dc == d[n].target
        key == <<n.t, content_data(related_dc)>>
    IN IF unsaved(d, related_dc)
       THEN Related(st, d, "ValueError")
       ELSE IF IntegrityError(st.ManifestListTag, key)
       THEN Related(st, [d EXCEPT ![n].content = "existing"], "")
       ELSE Related([st EXCEPT !.ManifestListTag = insert(@, key)],
                    [d EXCEPT ![n].content = "saved"], "")

(* relate that runs the handler of the config marker after that of the *)
(* layer marker                                                        *)
relate_twice(n, st, d) ==
    IF d[n].relation = "relation" THEN relate_manifest_to_list(n, st, d)
    ELSE IF d[n].relation = "blob_relation"
    THEN LET r == relate_blob(n, st, d)
         IN IF r.raises # "" THEN r ELSE relate_config_blob(n, r.store, r.dc)
    ELSE IF d[n].relation = "config_relation" THEN relate_config_blob(n, st, d)
    ELSE IF d[n].relation = "list_relation" THEN relate_manifest_list(n, st, d)
    ELSE IF d[n].relation = "man_relation" THEN relate_manifest(n, st, d)
    ELSE Related(st, d, "")

(* lines 346-355: the handler the marker of the node selects *)
relate(n, st, d) ==
    IF d[n].relation = "relation" THEN relate_manifest_to_list(n, st, d)
    ELSE IF d[n].relation = "blob_relation" THEN relate_blob(n, st, d)
    ELSE IF d[n].relation = "config_relation" THEN relate_config_blob(n, st, d)
    ELSE IF d[n].relation = "list_relation" THEN relate_manifest_list(n, st, d)
    ELSE IF d[n].relation = "man_relation" THEN relate_manifest(n, st, d)
    ELSE Related(st, d, "")

(* lines 340-357: the next item of the input is related and put *)
InterrelateContent ==
    /\ rerror = ""
    /\ Len(forwarded) < Len(out)
    /\ LET n == out[Len(forwarded) + 1]
           r == relate(n, ContentSaved(n),
                       [dc EXCEPT ![n].content = saved_content(n)])
       IN /\ store' = r.store
          /\ dc' = r.dc
          /\ rerror' = r.raises
          /\ forwarded' = IF r.raises = "" THEN Append(forwarded, n)
                          ELSE forwarded
    /\ UNCHANGED <<registry, include_foreign_layers, others, failed, run, bpc, error,
                   to_download, completed, done, cur, idx, future_manifests,
                   man_dcs, put_later_blob_dc, awaited, out, resolved,
                   snapshot>>

(* ---------------------- a concurrent synchronization ------------------ *)
IsList(t) == registry[t].mediaType = MANIFEST_LIST
IsManifest(t) == registry[t].mediaType = MANIFEST_V2
Classified(t) == IsList(t) \/ IsManifest(t)

(* the graph of the registry: what a synchronization is to leave *)
Ones(S) == [key \in S |-> 1]
TagsOf(P(_)) == {t \in DOMAIN registry : P(t)}
Members(l) == {l.manifests[i] : i \in 1..Len(l.manifests)}
RegistryLists == {registry[t] : t \in TagsOf(IsList)}
RegistryManifests ==
    {registry[t] : t \in TagsOf(IsManifest)}
    \cup UNION {Members(l) : l \in RegistryLists}
Excluded(layer) ==
    layer.mediaType = FOREIGN_BLOB /\ include_foreign_layers = FALSE
LayerDigests(m) ==
    {m.layers[j].digest : j \in {i \in 1..Len(m.layers) : ~Excluded(m.layers[i])}}
RegistryGraph ==
    [Artifact |-> Ones({registry[t] : t \in DOMAIN registry}),
     ManifestList |-> Ones(RegistryLists),
     ImageManifest |-> Ones(RegistryManifests),
     ManifestBlob |-> Ones(UNION {LayerDigests(m) \cup {m.config} :
                                    m \in RegistryManifests}),
     ManifestTag |-> Ones({<<t, registry[t]>> : t \in TagsOf(IsManifest)}),
     ManifestListTag |-> Ones({<<t, registry[t]>> : t \in TagsOf(IsList)}),
     BlobManifestBlob |-> Ones(UNION {{<<m, b>> : b \in LayerDigests(m)} :
                                        m \in RegistryManifests}),
     ManifestListManifest |-> Ones(UNION {{<<l, m>> : m \in Members(l)} :
                                            l \in RegistryLists}),
     config_blob |-> [m \in RegistryManifests |-> m.config]]

(* the rows a row refers to are in the store *)
Referenced(table, key) ==
    IF table = "ManifestTag" THEN key[2] \in DOMAIN store.ImageManifest
    ELSE IF table = "ManifestListTag" THEN key[2] \in DOMAIN store.ManifestList
    ELSE IF table = "BlobManifestBlob"
    THEN key[1] \in DOMAIN store.ImageManifest
         /\ key[2] \in DOMAIN store.ManifestBlob
    ELSE IF table = "ManifestListManifest"
    THEN key[1] \in DOMAIN store.ManifestList
         /\ key[2] \in DOMAIN store.ImageManifest
    ELSE TRUE

(* Another synchronization of the same registry, running at the same     *)
(* time, saves one of its rows; the unique constraint holds for it too.   *)
OtherRunSaves(table, key) ==
    /\ others < MaxOtherWrites
    /\ key \in DOMAIN RegistryGraph[table]
    /\ ~IntegrityError(store[table], key)
    /\ Referenced(table, key)
    /\ store' = [store EXCEPT ![table] = insert(@, key)]
    /\ others' = others + 1
    /\ UNCHANGED <<registry, include_foreign_layers, failed, run, pipeline, snapshot>>

(* --------------------------- the next run ----------------------------- *)
Completed ==
    bpc = "finished" /\ rerror = "" /\ Len(forwarded) = Len(out)

(* the same registry is synchronized again, into the store as it is *)
NextRun ==
    /\ Completed
    /\ run < MaxRuns
    /\ run' = run + 1
    /\ snapshot' = store
    /\ bpc' = "start"
    /\ error' = ""
    /\ to_download' = {}
    /\ completed' = {}
    /\ done' = {}
    /\ cur' = 0
    /\ idx' = 0
    /\ future_manifests' = <<>>
    /\ man_dcs' = EmptyTable
    /\ put_later_blob_dc' = <<>>
    /\ awaited' = 0
    /\ dc' = EmptyTable
    /\ out' = <<>>
    /\ resolved' = <<>>
    /\ forwarded' = <<>>
    /\ rerror' = ""
    /\ UNCHANGED <<registry, include_foreign_layers, others, failed, store>>

(* ------------------------- the specifications ------------------------- *)
Tags == 1..MaxTags
Nodes == DOMAIN dc

Next ==
    \/ CreateDownloads
    \/ \E t \in Tags : FetchCompletes(t)
    \/ Wait
    \/ \E t \in Tags : SkipResult(t)
    \/ \E t \in Tags : CreateTagRaises(t)
    \/ \E t \in Tags : PutList(t)
    \/ RelateList
    \/ PutMember
    \/ \E t \in Tags : PutManifest(t)
    \/ RelateManifest
    \/ PutTag
    \/ AwaitFuture
    \/ PutBlob
    \/ Finish
    \/ \E n \in Nodes : ResolveFuture(n)
    \/ InterrelateContent

NextTwice ==
    \/ Next
    \/ NextRun

NextFail ==
    \/ Next
    \/ \E t \in Tags : FetchFails(t)
    \/ \E t \in Tags : ResultRaises(t)
    \/ \E n \in Nodes : FutureFails(n)
    \/ AwaitRaises

NextRace ==
    \/ Next
    \/ \E table \in TableNames :
         \E key \in DOMAIN RegistryGraph[table] : OtherRunSaves(table, key)

(* one run over registries of up to MaxTags tags, of one-layer manifests *)
(* and lists of them                                                     *)
Spec == Init /\ [][Next]_vars

(* the same, synchronized MaxRuns times *)
SpecTwice == Init /\ [][NextTwice]_vars

(* one run in which downloads may fail *)
SpecFail == InitRace /\ [][NextFail]_vars

(* the steps of DockerFirstStage.run: the event loop runs the coroutine *)
(* whenever it can go on                                               *)
DockerFirstStage ==
    \/ CreateDownloads
    \/ Wait
    \/ \E t \in Tags : SkipResult(t)
    \/ \E t \in Tags : CreateTagRaises(t)
    \/ \E t \in Tags : PutList(t)
    \/ RelateList
    \/ PutMember
    \/ \E t \in Tags : PutManifest(t)
    \/ RelateManifest
    \/ PutTag
    \/ AwaitFuture
    \/ PutBlob
    \/ Finish

(* one run in which the Builder is scheduled whenever it can go on, and *)
(* a download may take for ever                                         *)
SpecEager == InitRace /\ [][Next]_vars /\ WF_vars(DockerFirstStage)

(* one run in which every stage is scheduled whenever it can go on, every *)
(* download completes and every future is resolved                        *)
SpecLive ==
    /\ InitRace
    /\ [][Next]_vars
    /\ WF_vars(DockerFirstStage)
    /\ WF_vars(\E t \in Tags : FetchCompletes(t))
    /\ WF_vars(\E n \in Nodes : ResolveFuture(n))
    /\ WF_vars(InterrelateContent)

(* one run, beside a concurrent synchronization of the same registry *)
SpecRace == InitRace /\ [][NextRace]_vars

(* one run over registries of one tag, of any manifest of up to MaxLayers *)
(* layers or a list of one                                                *)
SpecDeep == InitDeep /\ [][Next]_vars

(* ------------------------------ claims -------------------------------- *)
TagNode(t) == Node("tag", t, 0, 0)
TargetNode(t) ==
    IF IsList(t) THEN Node("list", t, 0, 0) ELSE Node("man", t, 0, 0)
PutBefore(q, n, p) == \E i \in 1..(p - 1) : q[i] = n

(* C1: every Tag the Builder has put comes after its target (the Manifest, *)
(* or the ManifestList and every member stub), and carries the marker that *)
(* names the target; a Builder that finished has put the Tag of every      *)
(* classified fetch result.                                                *)
C1_TagPutAfterTarget ==
    /\ \A p \in 1..Len(out) :
         LET n == out[p] IN
         n.k = "tag" =>
           /\ dc[n].relation =
                (IF IsList(n.t) THEN "list_relation" ELSE "man_relation")
           /\ dc[n].target = TargetNode(n.t)
           /\ PutBefore(out, TargetNode(n.t), p)
           /\ IsList(n.t) =>
                \A i \in 1..Len(registry[n.t].manifests) :
                    PutBefore(out, Node("stub", n.t, i, 0), p)
    /\ bpc = "finished" =>
         \A t \in DOMAIN registry :
            Classified(t) => \E p \in 1..Len(out) : out[p] = TagNode(t)

(* a list tag of two members and a manifest tag have both been put *)
C1_Witness ==
    \E p, q \in 1..Len(out) :
        /\ out[p].k = "tag" /\ IsList(out[p].t)
        /\ Len(registry[out[p].t].manifests) = 2
        /\ out[q].k = "tag" /\ IsManifest(out[q].t)

(* C2: the Resolver never relates an unsaved object, and every node it has *)
(* related came through the queue after the node its marker names, both    *)
(* of them saved.                                                          *)
C2_EndpointsExist ==
    /\ rerror # "ValueError"
    /\ \A p \in 1..Len(forwarded) :
         LET n == forwarded[p] IN
         dc[n].relation # NO_RELATION =>
           /\ PutBefore(forwarded, dc[n].target, p)
           /\ PutBefore(out, dc[n].target, p)
           /\ dc[dc[n].target].content # "new"
           /\ dc[n].content # "new"

(* a completed run that wrote an edge of each of the five kinds *)
C2_Witness ==
    /\ Completed
    /\ \A tb \in {"ManifestTag", "ManifestListTag", "BlobManifestBlob",
                  "ManifestListManifest", "config_blob"} :
          DOMAIN store[tb] # {}

(* C3: each step of the Resolver puts the next node of its input, in the  *)
(* Builder's order, with type, digest and marker as the Builder made them, *)
(* and raises nothing: what it has put is a prefix of what the Builder put. *)
C3_PassThrough ==
    /\ [](/\ Len(forwarded) <= Len(out)
          /\ forwarded = SubSeq(out, 1, Len(forwarded)))
    /\ [][(run' = run /\ (forwarded' # forwarded \/ rerror' # rerror)) =>
            /\ rerror' = ""
            /\ Len(forwarded) < Len(out)
            /\ forwarded' = Append(forwarded, out[Len(forwarded) + 1])
            /\ DOMAIN dc' = DOMAIN dc
            /\ \A n \in DOMAIN dc :
                 /\ dc'[n].type = dc[n].type
                 /\ dc'[n].digest = dc[n].digest
                 /\ dc'[n].relation = dc[n].relation
                 /\ dc'[n].target = dc[n].target]_vars

(* a second run is through: every write met a conflict, and nodes with    *)
(* and without a marker were forwarded                                    *)
C3_Witness ==
    /\ Completed
    /\ run = 2
    /\ \E p, q, r \in 1..Len(forwarded) :
         /\ dc[forwarded[p]].relation = NO_RELATION
         /\ dc[forwarded[q]].relation = "man_relation"
         /\ dc[forwarded[q]].content = "existing"
         /\ dc[forwarded[r]].relation = "blob_relation"

(* C4: a completed run leaves the graph of the registry, one row a key,   *)
(* whatever the order in which fetches completed and futures resolved.     *)
C4_OrderIndependence == Completed => store = RegistryGraph

(* a completed run that processed tag 2 before tag 1 and awaited the stub *)
(* registered second before the one registered first                      *)
C4_Witness ==
    /\ Completed
    /\ Len(resolved) = 2
    /\ resolved[1] = future_manifests[2]
    /\ \E p, q \in 1..Len(out) : p < q /\ out[p].t = 2 /\ out[q].t = 1

(* C5: the store holds at most one Artifact row per checksum and at most   *)
(* one ManifestList row per digest, every list node the Builder made       *)
(* stands on a row of the store and was put, and no stage fails with       *)
(* IntegrityError; a Builder step that takes up a fetch result whose        *)
(* Artifact or ManifestList row is already there (made for another tag of  *)
(* the run or by the concurrent synchronization) leaves that table as it   *)
(* is, carries on with the existing row and aborts only where create_tag   *)
(* raises.                                                                  *)
C5_TakesUp(t) == bpc = "loop" /\ t \in done /\ t \notin done'
C5_Step ==
    \A t \in DOMAIN registry :
        C5_TakesUp(t) =>
            /\ registry[t] \in DOMAIN store'.Artifact
            /\ IntegrityError(store.Artifact, registry[t])
                  => store'.Artifact = store.Artifact
            /\ IsList(t) /\ IntegrityError(store.ManifestList, registry[t])
                  => /\ store'.ManifestList = store.ManifestList
                     /\ dc'[Node("list", t, 0, 0)].content = "existing"
                     /\ bpc' = "list"
            /\ bpc' = "aborted"
                  => create_tag(registry[t].mediaType) = "UnboundLocalError"
C5_Rows ==
    /\ \A key \in DOMAIN store.Artifact : store.Artifact[key] = 1
    /\ \A key \in DOMAIN store.ManifestList : store.ManifestList[key] = 1
    /\ error # "IntegrityError" /\ rerror # "IntegrityError"
    /\ \A t \in DOMAIN registry :
          Node("list", t, 0, 0) \in DOMAIN dc
             => /\ dc[Node("list", t, 0, 0)].content \in {"saved", "existing"}
                /\ registry[t] \in DOMAIN store.ManifestList
                /\ \E p \in 1..Len(out) : out[p] = Node("list", t, 0, 0)
C5_DigestUniqueness == []C5_Rows /\ [][C5_Step]_vars

(* the only tag serves a manifest list whose row the concurrent            *)
(* synchronization saved first: the run went on with that row and completed *)
C5_Witness ==
    /\ DOMAIN registry = {1}
    /\ others = 1
    /\ Node("list", 1, 0, 0) \in DOMAIN dc
    /\ dc[Node("list", 1, 0, 0)].content = "existing"
    /\ store.ManifestList[registry[1]] = 1
    /\ Completed

(* C6: throughout a second synchronization of the same registry, begun    *)
(* on the store a completed first run left, the store stays equal to that  *)
(* store: no content, artifact, tag or edge row is added, none is counted  *)
(* twice, and the second run completes in that same store.                 *)
C6_Idempotence == run > 1 => store = snapshot

(* the second run over a list of two different images and a tagged image   *)
(* has completed: rows of every table are there and all are the first      *)
(* run's                                                                    *)
C6_Witness ==
    /\ run = 2
    /\ Completed
    /\ store = snapshot
    /\ \A table \in TableNames : DOMAIN store[table] # {}
    /\ \E l \in DOMAIN store.ManifestList : Cardinality(Members(l)) = 2
    /\ Len(forwarded) > 0

(* C7: after a completed run, the manifests the store reaches from a       *)
(* classified tag are its payload (manifest tag) or the members of its      *)
(* payload (list tag); the manifest->blob edges of each are exactly, and    *)
(* once each, its layers that pass the foreign-layer filter, each a Blob    *)
(* row; its config_blob is its one config, a Blob row too; and the store    *)
(* holds no other Blob row.                                                  *)
C7_Targets(t) ==
    IF IsManifest(t)
    THEN {m \in DOMAIN store.ImageManifest : <<t, m>> \in DOMAIN store.ManifestTag}
    ELSE {m \in DOMAIN store.ImageManifest :
            \E l \in DOMAIN store.ManifestList :
                /\ <<t, l>> \in DOMAIN store.ManifestListTag
                /\ <<l, m>> \in DOMAIN store.ManifestListManifest}
C7_Edges(m) ==
    {key \in DOMAIN store.BlobManifestBlob : key[1] = m}
C7_Blobs(m) ==
    {key[2] : key \in C7_Edges(m)}
    \cup {store.config_blob[k] : k \in DOMAIN store.config_blob \cap {m}}
C7_GraphCompleteness ==
    Completed =>
        /\ \A t \in DOMAIN registry :
              Classified(t) =>
                 /\ C7_Targets(t) = IF IsManifest(t) THEN {registry[t]}
                                    ELSE Members(registry[t])
                 /\ \A m \in C7_Targets(t) :
                       /\ {key[2] : key \in C7_Edges(m)} = LayerDigests(m)
                       /\ \A key \in C7_Edges(m) :
                             store.BlobManifestBlob[key] = 1
                       /\ m \in DOMAIN store.config_blob
                       /\ store.config_blob[m] = m.config
                       /\ C7_Blobs(m) \subseteq DOMAIN store.ManifestBlob
        /\ DOMAIN store.ManifestBlob =
              UNION {UNION {C7_Blobs(m) : m \in C7_Targets(t)} :
                       t \in {u \in DOMAIN registry : Classified(u)}}
        /\ \A b \in DOMAIN store.ManifestBlob : store.ManifestBlob[b] = 1

(* a tagged manifest of two different layers, none foreign, and a config:  *)
(* 1 Tag, 1 Manifest, 3 Blobs, config_blob set, 2 manifest->blob edges      *)
C7_Witness ==
    /\ Completed
    /\ IsManifest(1)
    /\ Len(registry[1].layers) = 2
    /\ registry[1].layers[1].digest # registry[1].layers[2].digest
    /\ \A j \in 1..2 : registry[1].layers[j].mediaType = REGULAR_BLOB
    /\ Cardinality(DOMAIN store.ManifestTag) = 1
    /\ Cardinality(DOMAIN store.ImageManifest) = 1
    /\ Cardinality(DOMAIN store.ManifestBlob) = 3
    /\ DOMAIN store.config_blob = {registry[1]}
    /\ Cardinality(DOMAIN store.BlobManifestBlob) = 2

(* C8: after a completed run, a blob digest that exactly two different    *)
(* manifests of the registry name as a layer has exactly one Blob row, and *)
(* the manifest->blob edges into it are exactly two, one from each of the  *)
(* two manifests, each written once.                                       *)
C8_Referrers(b) == {m \in RegistryManifests : b \in LayerDigests(m)}
C8_EdgesInto(b) == {key \in DOMAIN store.BlobManifestBlob : key[2] = b}
C8_SharedBlob ==
    Completed =>
        \A b \in BlobDigests :
            Cardinality(C8_Referrers(b)) = 2 =>
                /\ b \in DOMAIN store.ManifestBlob
                /\ store.ManifestBlob[b] = 1
                /\ C8_EdgesInto(b) = {<<m, b>> : m \in C8_Referrers(b)}
                /\ Cardinality(C8_EdgesInto(b)) = 2
                /\ \A key \in C8_EdgesInto(b) : store.BlobManifestBlob[key] = 1

(* two tags serve two different manifests with the same layer: the run     *)
(* completed with one row for the layer and an edge from each manifest     *)
C8_Witness ==
    /\ Completed
    /\ DOMAIN registry = {1, 2}
    /\ IsManifest(1) /\ IsManifest(2)
    /\ registry[1] # registry[2]
    /\ registry[1].layers[1].digest = registry[2].layers[1].digest
    /\ store.ManifestBlob[registry[1].layers[1].digest] = 1
    /\ C8_EdgesInto(registry[1].layers[1].digest)
          = {<<registry[1], registry[1].layers[1].digest>>,
             <<registry[2], registry[1].layers[1].digest>>}

(* C9: the registry has one tag, which serves a manifest list whose        *)
(* members have one layer each.                                            *)
C9_OneListTag ==
    /\ DOMAIN registry = {1}
    /\ IsList(1)
    /\ \A m \in Members(registry[1]) : Len(m.layers) = 1
C9_Stubs == {n \in DOMAIN dc : n.k = "stub"}
C9_Layers == {m.layers[1].digest : m \in Members(registry[1])}
C9_Configs == {m.config : m \in Members(registry[1])}
C9_Rows(table) == Cardinality(DOMAIN store[table])

C10_Pass(layer) ==
    ~(layer.mediaType = FOREIGN_BLOB /\ include_foreign_layers = FALSE)
C10_Sites ==
    {Node("man", t, 0, 0) :
        t \in {u \in DOMAIN registry :
                 /\ IsManifest(u)
                 /\ TagNode(u) \in DOMAIN dc
                 /\ dc[TagNode(u)].relation = "man_relation"}}
    \cup {resolved[p] : p \in 1..awaited}
C10_BlobsOf(s) ==
    {n \in DOMAIN dc : n.k = "blob" /\ n.t = s.t /\ n.i = s.i}
C10_ForeignFilter ==
    \A s \in C10_Sites :
        LET cd == content_data(s)
            kept == SelectSeq(cd.layers, C10_Pass)
        IN {"layers", "config"} \subseteq cd.keys =>
              /\ C10_BlobsOf(s) =
                    {Node("blob", s.t, s.i, j) : j \in 1..(Len(kept) + 1)}
              /\ \A j \in 1..Len(kept) :
                    /\ dc[Node("blob", s.t, s.i, j)].relation = "blob_relation"
                    /\ dc[Node("blob", s.t, s.i, j)].digest = kept[j].digest
              /\ \A i \in 1..Len(cd.layers) :
                    C10_Pass(cd.layers[i])
                       <=> \E j \in 1..Len(kept) : kept[j] = cd.layers[i]
              /\ dc[Node("blob", s.t, s.i, Len(kept) + 1)].relation
                    = "config_relation"
              /\ dc[Node("blob", s.t, s.i, Len(kept) + 1)].digest = cd.config

(* foreign layers are disallowed and the tagged manifest has a foreign     *)
(* layer before a regular one: the regular layer and the config were made  *)
C10_Witness ==
    /\ include_foreign_layers = FALSE
    /\ IsManifest(1)
    /\ Node("man", 1, 0, 0) \in C10_Sites
    /\ Len(registry[1].layers) = 2
    /\ registry[1].layers[1].mediaType = FOREIGN_BLOB
    /\ registry[1].layers[2].mediaType = REGULAR_BLOB
    /\ Cardinality(C10_BlobsOf(Node("man", 1, 0, 0))) = 2
    /\ dc[Node("blob", 1, 0, 1)].digest = registry[1].layers[2].digest
    /\ dc[Node("blob", 1, 0, 2)].relation = "config_relation"

(* C11: in every state no manifest node (tagged manifest or member stub)   *)
(* has had config_blob assigned by the Resolver more than once, each        *)
(* assignment came after the config blob node was put by the Builder, and   *)
(* after a completed run every manifest node has had it assigned exactly    *)
(* once, also where several nodes carry the same manifest digest.           *)
C11_ManifestNodes == {n \in DOMAIN dc : n.k \in {"man", "stub"}}
C11_Assignments(m) ==
    {p \in 1..Len(forwarded) :
        /\ dc[forwarded[p]].relation = "config_relation"
        /\ dc[forwarded[p]].target = m}
C11_ConfigSetOnce ==
    \A m \in C11_ManifestNodes :
        /\ Cardinality(C11_Assignments(m)) <= 1
        /\ \A p \in C11_Assignments(m) : p <= Len(out) /\ out[p] = forwarded[p]
        /\ Completed => Cardinality(C11_Assignments(m)) = 1

(* a completed run in which one stub had config_blob assigned twice and    *)
(* another stub of the same digest never                                    *)
C11_Witness ==
    /\ Completed
    /\ \E m, n \in C11_ManifestNodes :
          /\ m.k = "stub" /\ n.k = "stub" /\ m # n
          /\ content_data(m) = content_data(n)
          /\ Cardinality(C11_Assignments(m)) = 2
          /\ C11_Assignments(n) = {}

(* C12: a tag node that has a target has one of its own class (a          *)
(* ManifestTag a manifest, a ManifestListTag a manifest list), the one its *)
(* marker names; after a completed run every tag node has its target; no   *)
(* step of the Builder or the Resolver assigns a target to a tag node that  *)
(* has one, a target once assigned stays, and the Resolver's assertion      *)
(* never fails.                                                             *)
C12_TagNodes == {n \in DOMAIN dc : n.k = "tag"}
C12_TargetClass(n) ==
    IF dc[n].type = "ManifestTag" THEN "ImageManifest" ELSE "ManifestList"
C12_Assigns(n) ==
    \/ bpc = "list" /\ cur = n.t /\ bpc' = "members"
    \/ /\ Len(forwarded') > Len(forwarded)
       /\ out[Len(forwarded) + 1] = n
       /\ dc[n].relation = "man_relation"
C12_Tags ==
    /\ rerror # "AssertionError"
    /\ \A n \in C12_TagNodes :
          /\ dc[n].type \in {"ManifestTag", "ManifestListTag"}
          /\ dc[n].target_set =>
                /\ dc[n].target \in DOMAIN dc
                /\ dc[dc[n].target].type = C12_TargetClass(n)
                /\ dc[n].target = TargetNode(n.t)
          /\ Completed => dc[n].target_set
C12_Step ==
    \A n \in C12_TagNodes :
        dc[n].target_set =>
            /\ ~C12_Assigns(n)
            /\ n \in DOMAIN dc' =>
                  dc'[n].target_set /\ dc'[n].target = dc[n].target
C12_OneTarget == []C12_Tags /\ [][C12_Step]_vars

(* a completed run over a tagged manifest and a tagged list: each tag has  *)
(* its one target, the first assigned by the Resolver, the second by the    *)
(* Builder                                                                  *)
C12_Witness ==
    /\ Completed
    /\ \E m, l \in C12_TagNodes :
          /\ dc[m].type = "ManifestTag" /\ dc[m].target_set
          /\ dc[dc[m].target].type = "ImageManifest"
          /\ dc[l].type = "ManifestListTag" /\ dc[l].target_set
          /\ dc[dc[l].target].type = "ManifestList"

(* C13: whenever the Resolver takes up a config blob whose manifest node   *)
(* has had config_blob assigned already, or a tag node (of a manifest or of *)
(* a manifest list) that has its target already, it stops with an           *)
(* AssertionError, leaves the tables as they are and forwards nothing.      *)
C13_Next == out[Len(forwarded) + 1]
C13_DoubleSet ==
    \/ /\ dc[C13_Next].relation = "config_relation"
       /\ C11_Assignments(dc[C13_Next].target) # {}
    \/ /\ dc[C13_Next].relation \in {"man_relation", "list_relation"}
       /\ dc[C13_Next].target_set
C13_ResolverStep ==
    /\ rerror = ""
    /\ Len(forwarded) < Len(out)
    /\ <<forwarded, rerror>>' # <<forwarded, rerror>>
C13_FailsLoudly ==
    [][(C13_ResolverStep /\ C13_DoubleSet)
          => /\ rerror' = "AssertionError"
             /\ forwarded' = forwarded
             /\ store' = store]_vars

(* the Resolver went on without an error after assigning config_blob to    *)
(* one stub twice and after taking up a list tag that had its manifest     *)
(* list already                                                            *)
C13_Witness ==
    /\ rerror = ""
    /\ \E m \in C11_ManifestNodes : Cardinality(C11_Assignments(m)) = 2
    /\ \E p \in 1..Len(forwarded) :
          /\ dc[forwarded[p]].type = "ManifestListTag"
          /\ dc[forwarded[p]].target_set

(* C14: a Resolver step that takes up a layer blob or a member stub whose  *)
(* (manifest, blob) or (list, manifest) edge is in the store already leaves *)
(* both edge tables as they are, raises nothing and forwards the node; and  *)
(* no edge is ever in its table twice.                                      *)
C14_Edge(n) ==
    IF dc[n].relation = "blob_relation"
    THEN <<content_data(dc[n].target), dc[n].digest>>
    ELSE <<content_data(dc[n].target), content_data(n)>>
C14_EdgeThere(n) ==
    \/ /\ dc[n].relation = "blob_relation"
       /\ C14_Edge(n) \in DOMAIN store.BlobManifestBlob
    \/ /\ dc[n].relation = "relation"
       /\ C14_Edge(n) \in DOMAIN store.ManifestListManifest
C14_Step ==
    (C13_ResolverStep /\ C14_EdgeThere(C13_Next))
       => /\ store'.BlobManifestBlob = store.BlobManifestBlob
          /\ store'.ManifestListManifest = store.ManifestListManifest
          /\ rerror' = ""
          /\ forwarded' = Append(forwarded, C13_Next)
C14_EdgesOnce ==
    /\ \A key \in DOMAIN store.BlobManifestBlob : store.BlobManifestBlob[key] = 1
    /\ \A key \in DOMAIN store.ManifestListManifest :
          store.ManifestListManifest[key] = 1
C14_EdgeIdempotence == []C14_EdgesOnce /\ [][C14_Step]_vars

(* the second run has forwarded a member stub and a layer blob whose edges *)
(* the first run wrote                                                     *)
C14_Witness ==
    /\ run = 2
    /\ \E p, q \in 1..Len(forwarded) :
          /\ dc[forwarded[p]].relation = "relation"
          /\ C14_Edge(forwarded[p]) \in DOMAIN snapshot.ManifestListManifest
          /\ dc[forwarded[q]].relation = "blob_relation"
          /\ C14_Edge(forwarded[q]) \in DOMAIN snapshot.BlobManifestBlob
    /\ store.BlobManifestBlob = snapshot.BlobManifestBlob
    /\ store.ManifestListManifest = snapshot.ManifestListManifest

(* C15: a Resolver step that takes up a tag node (of a manifest or of a    *)
(* manifest list) whose (name, target) row is in the store already, written *)
(* by the concurrent synchronization, leaves the tag tables as they are,    *)
(* points the node at the existing row, raises nothing and forwards the     *)
(* node; and no (name, target) pair is ever in its table twice.             *)
C15_Table(n) ==
    IF dc[n].relation = "man_relation" THEN "ManifestTag" ELSE "ManifestListTag"
C15_RowThere(n) ==
    /\ dc[n].relation \in {"man_relation", "list_relation"}
    /\ <<n.t, content_data(dc[n].target)>> \in DOMAIN store[C15_Table(n)]
C15_Step ==
    (C13_ResolverStep /\ C15_RowThere(C13_Next))
       => /\ store'.ManifestTag = store.ManifestTag
          /\ store'.ManifestListTag = store.ManifestListTag
          /\ dc'[C13_Next].content = "existing"
          /\ rerror' = ""
          /\ forwarded' = Append(forwarded, C13_Next)
C15_RowsOnce ==
    /\ \A key \in DOMAIN store.ManifestTag : store.ManifestTag[key] = 1
    /\ \A key \in DOMAIN store.ManifestListTag : store.ManifestListTag[key] = 1
C15_TagConflict == []C15_RowsOnce /\ [][C15_Step]_vars

(* the only tag serves a manifest; the concurrent synchronization wrote    *)
(* its (name, manifest) row first, and the run completed on that row       *)
C15_Witness ==
    /\ DOMAIN registry = {1}
    /\ IsManifest(1)
    /\ others = 1
    /\ Completed
    /\ dc[Node("tag", 1, 0, 0)].content = "existing"
    /\ store.ManifestTag[<<1, registry[1]>>] = 1

(* C16: a Builder step that takes up a fetch result whose payload has no   *)
(* mediaType makes no node, puts nothing, registers no future and raises    *)
(* nothing, and leaves the Builder at the next result (or the next wait,    *)
(* or the pass over the futures); no node of such a tag ever exists, and a  *)
(* Builder that finished has put the Tag of every other tag.                *)
C16_Dropped(t) == registry[t].mediaType = NO_MEDIA
C16_Step ==
    \A t \in DOMAIN registry :
        (C5_TakesUp(t) /\ C16_Dropped(t))
           => /\ dc' = dc
              /\ out' = out
              /\ future_manifests' = future_manifests
              /\ man_dcs' = man_dcs
              /\ put_later_blob_dc' = put_later_blob_dc
              /\ error' = ""
              /\ bpc' = IF done' # {} THEN "loop"
                        ELSE IF to_download # {} THEN "wait" ELSE "futures"
C16_NoNodes ==
    /\ \A n \in DOMAIN dc : ~C16_Dropped(n.t)
    /\ bpc = "finished"
          => \A t \in DOMAIN registry :
                ~C16_Dropped(t) => PutBefore(out, TagNode(t), Len(out) + 1)
C16_DropsUntyped == []C16_NoNodes /\ [][C16_Step]_vars

(* of two tags the first serves a document without mediaType, the second a *)
(* manifest: the run completed with the nodes of the second alone           *)
C16_Witness ==
    /\ Completed
    /\ DOMAIN registry = {1, 2}
    /\ C16_Dropped(1)
    /\ IsManifest(2)
    /\ 1 \notin to_download \cup done
    /\ \A n \in DOMAIN dc : n.t = 2
    /\ \E p \in 1..Len(forwarded) : forwarded[p] = TagNode(2)
    /\ future_manifests = <<>>

(* C17: a Builder step that takes up the result of a failed tag download, *)
(* or awaits the future of a stub whose download failed, aborts the Builder *)
(* without making or putting a node; an aborted Builder stays aborted and   *)
(* puts nothing more; a Builder aborted by a download had a download fail;  *)
(* and a Builder that finished had no download fail and has put exactly the *)
(* discoverable nodes: of every classified tag the target and the Tag, of a *)
(* list every member stub, of every manifest its passing layers and config. *)
C17_BlobsAt(t, i, m) ==
    {Node("blob", t, i, j) : j \in 1..(Len(SelectSeq(m.layers, C10_Pass)) + 1)}
C17_NodesOf(t) ==
    {TagNode(t), TargetNode(t)}
    \cup IF IsList(t)
         THEN UNION {{Node("stub", t, i, 0)}
                     \cup C17_BlobsAt(t, i, registry[t].manifests[i]) :
                        i \in 1..Len(registry[t].manifests)}
         ELSE C17_BlobsAt(t, 0, registry[t])
C17_Discoverable ==
    UNION {C17_NodesOf(t) : t \in {u \in DOMAIN registry : Classified(u)}}
C17_Outcome ==
    /\ bpc = "aborted" /\ error = "DownloadError" => failed # {}
    /\ bpc = "finished"
          => /\ failed = {}
             /\ {out[p] : p \in 1..Len(out)} = C17_Discoverable
             /\ Cardinality(C17_Discoverable) = Len(out)
C17_Step ==
    /\ \A t \in DOMAIN registry :
          (C5_TakesUp(t) /\ TagNode(t) \in failed)
             => /\ bpc' = "aborted" /\ error' = "DownloadError"
                /\ out' = out /\ dc' = dc /\ store' = store
    /\ (/\ bpc = "futures"
        /\ awaited' # awaited
        /\ awaited < Len(resolved)
        /\ resolved[awaited + 1] \in failed)
          => /\ bpc' = "aborted" /\ error' = "DownloadError"
             /\ out' = out /\ dc' = dc
    /\ bpc = "aborted" => bpc' = "aborted" /\ out' = out /\ error' = error
C17_TransportFatal == []C17_Outcome /\ [][C17_Step]_vars

(* of two tags the second was processed and its Tag put, then the failed   *)
(* download of the first was taken up: the Builder aborted with no node of *)
(* the first                                                               *)
C17_Witness ==
    /\ DOMAIN registry = {1, 2}
    /\ failed = {TagNode(1)}
    /\ bpc = "aborted"
    /\ error = "DownloadError"
    /\ \E p \in 1..Len(out) : out[p] = TagNode(2)
    /\ \A n \in DOMAIN dc : n.t = 2

(* C18: the fetches of all tags are launched before any result is taken   *)
(* up; a Builder that waits with a completed fetch at hand can go on; and *)
(* with the Builder scheduled whenever it can go on, a tag whose fetch    *)
(* has completed gets its result processed (the target and the Tag put,   *)
(* or the untyped payload dropped) or the run aborts, whether or not the  *)
(* fetches of the other tags ever complete.                               *)
C18_Processed(t) ==
    /\ t \in DOMAIN registry
    /\ IF Classified(t)
       THEN /\ PutBefore(out, TargetNode(t), Len(out) + 1)
            /\ PutBefore(out, TagNode(t), Len(out) + 1)
       ELSE t \notin to_download \cup done
C18_LaunchedFirst ==
    /\ bpc = "start" => out = <<>> /\ done = {} /\ store = EmptyStore
    /\ bpc # "start" =>
          \A t \in DOMAIN registry :
              \/ t \in to_download \cup done
              \/ IntegrityError(store.Artifact, registry[t])
C18_NeverBlocked ==
    (bpc = "wait" /\ completed # {}) => ENABLED Wait
C18_EarliestFirst ==
    /\ [](C18_LaunchedFirst /\ C18_NeverBlocked)
    /\ \A t \in Tags :
          (t \in completed) ~> (C18_Processed(t) \/ bpc = "aborted")

(* of two tags the second has its target and its Tag put while the fetch *)
(* of the first has not completed                                        *)
C18_Witness ==
    /\ DOMAIN registry = {1, 2}
    /\ Classified(2)
    /\ 1 \in to_download \ completed
    /\ C18_Processed(2)
    /\ bpc = "wait"

(* C19: with every stage scheduled whenever it can go on, every tag fetch  *)
(* completing and every stub future resolved, the Builder comes to finish  *)
(* (or aborts on a payload it cannot process); a Builder that finished has *)
(* awaited every registered future, each of them resolved, and has put     *)
(* every blob it had pending; and once the Builder has finished the        *)
(* Resolver comes to have forwarded every node that was put.               *)
C19_Resolved(n) == \E p \in 1..Len(resolved) : resolved[p] = n
C19_Drained ==
    bpc = "finished" =>
        /\ to_download = {} /\ done = {}
        /\ awaited = Len(future_manifests)
        /\ \A i \in 1..Len(future_manifests) :
               C19_Resolved(future_manifests[i])
        /\ \A i \in 1..Len(put_later_blob_dc) :
               PutBefore(out, put_later_blob_dc[i], Len(out) + 1)
C19_Forwarded ==
    /\ rerror = ""
    /\ forwarded = out
C19_Termination ==
    /\ []C19_Drained
    /\ <>(bpc = "finished" \/ bpc = "aborted")
    /\ (bpc = "finished") ~> (bpc = "finished" /\ C19_Forwarded)

(* a list of two members and a manifest were synchronized to the end: the *)
(* futures of both stubs resolved, the blobs put, every node forwarded    *)
C19_Witness ==
    /\ bpc = "finished"
    /\ C19_Forwarded
    /\ Len(future_manifests) = 2
    /\ \E t \in DOMAIN registry : IsManifest(t)
    /\ Len(put_later_blob_dc) > 2
    /\ \A i \in 1..Len(put_later_blob_dc) :
           PutBefore(forwarded, put_later_blob_dc[i], Len(forwarded) + 1)

(* C20: every stub the Builder put has one future handle and every handle *)
(* belongs to one stub; a handle is resolved at most once, with the node   *)
(* it was requested for, and what it was resolved with never changes, so   *)
(* that whoever awaits it, whenever, is handed the same node; the Builder  *)
(* that awaits while none of the futures left is resolved stays suspended, *)
(* and blobs are discovered only for stubs whose future is resolved.       *)
C20_Handles == {future_manifests[i] : i \in 1..Len(future_manifests)}
C20_Table ==
    /\ \A i, k \in 1..Len(future_manifests) :
           future_manifests[i] = future_manifests[k] => i = k
    /\ C20_Handles = {n \in DOMAIN dc : n.k = "stub"}
    /\ \A n \in C20_Handles : PutBefore(out, n, Len(out) + 1)
C20_ResolvedOnce ==
    /\ \A p, q \in 1..Len(resolved) : resolved[p] = resolved[q] => p = q
    /\ \A p \in 1..Len(resolved) : resolved[p] \in C20_Handles
C20_Suspended ==
    /\ awaited <= Len(resolved)
    /\ \A n \in DOMAIN dc :
           (n.k = "blob" /\ n.i > 0)
              => \E p \in 1..awaited : resolved[p] = Node("stub", n.t, n.i, 0)
    /\ (bpc = "futures" /\ awaited < Len(future_manifests)
                        /\ awaited = Len(resolved))
           => ~ENABLED DockerFirstStage
C20_Step ==
    /\ \A p \in 1..Len(resolved) :
           p <= Len(resolved') /\ resolved'[p] = resolved[p]
    /\ awaited' # awaited =>
           /\ awaited' = awaited + 1
           /\ awaited < Len(resolved)
           /\ \A n \in DOMAIN dc' \ DOMAIN dc :
                  Node("stub", n.t, n.i, 0) = resolved[awaited + 1]
C21_NoTags == DOMAIN registry = {}
C21_Idle ==
    C21_NoTags =>
        /\ to_download = {} /\ completed = {} /\ done = {}
        /\ future_manifests = <<>> /\ awaited = 0 /\ resolved = <<>>
        /\ dc = EmptyTable /\ out = <<>> /\ put_later_blob_dc = <<>>
        /\ store = EmptyStore
        /\ error = ""
        /\ bpc \in {"start", "futures", "finished"}
C21_EmptyTagList ==
    /\ []C21_Idle
    /\ C21_NoTags ~> (C21_NoTags /\ bpc = "finished")

(* the run over the empty tag list, finished *)
C21_Witness ==
    /\ C21_NoTags
    /\ bpc = "finished"
    /\ out = <<>>
    /\ Completed

(* C22: for a manifest that has a config and no layers, the list of layers *)
(* empty or the key absent, blob discovery makes exactly one blob, the     *)
(* config blob with the config marker naming the manifest, the run does    *)
(* not abort, and a Builder that finished has put that blob once.          *)
C22_ConfigOnly(d) ==
    d.mediaType = MANIFEST_V2 /\ "config" \in d.keys /\ d.layers = <<>>
C22_BlobsAt(m) == {n \in DOMAIN dc : n.k = "blob" /\ n.t = m.t /\ n.i = m.i}
C22_OneConfigBlob(m) ==
    /\ Cardinality(C22_BlobsAt(m)) = 1
    /\ \A n \in C22_BlobsAt(m) :
          /\ dc[n].relation = "config_relation"
          /\ dc[n].target = m
          /\ dc[n].digest = content_data(m).config
          /\ bpc = "finished" =>
                Cardinality({p \in 1..Len(out) : out[p] = n}) = 1
C22_Discovered(m) ==
    IF m.k = "man" THEN PutBefore(out, TagNode(m.t), Len(out) + 1)
    ELSE \E p \in 1..awaited : resolved[p] = m
C22_OnlyConfig ==
    /\ \A t \in DOMAIN registry :
          C22_ConfigOnly(registry[t]) =>
             /\ error = ""
             /\ bpc = "finished" => Node("man", t, 0, 0) \in DOMAIN dc
    /\ \A m \in C11_ManifestNodes :
          C22_ConfigOnly(content_data(m)) =>
             /\ error = ""
             /\ C22_Discovered(m) => C22_OneConfigBlob(m)

(* the tag serves a manifest with a config and without the key of the     *)
(* layers: the Builder aborted in handle_blobs, no blob was made           *)
C22_Witness ==
    /\ DOMAIN registry = {1}
    /\ C22_ConfigOnly(registry[1])
    /\ "layers" \notin registry[1].keys
    /\ bpc = "aborted"
    /\ error = "TypeError"
    /\ C22_BlobsAt(Node("man", 1, 0, 0)) = {}
    /\ \A p \in 1..Len(out) : out[p] # TagNode(1)

(* C23: every node the Builder put, and put once, has no marker (a list,   *)
(* a tagged manifest) or the one marker of its kind, naming a node; and a  *)
(* Resolver step consumes a node it has not consumed before, leaves every  *)
(* edge table but the one of the marker's handler as it is (all of them    *)
(* for a node without marker), writes at most the one row of the node's    *)
(* edge there, and leaves that edge in the table exactly once.             *)
C23_EdgeTables ==
    {"BlobManifestBlob", "ManifestListManifest", "ManifestTag",
     "ManifestListTag", "config_blob"}
C23_Handler(relation) ==
    IF relation = "relation" THEN "ManifestListManifest"
    ELSE IF relation = "blob_relation" THEN "BlobManifestBlob"
    ELSE IF relation = "config_relation" THEN "config_blob"
    ELSE IF relation = "list_relation" THEN "ManifestListTag"
    ELSE IF relation = "man_relation" THEN "ManifestTag"
    ELSE "none"
C23_MarkersOf(n) ==
    IF n.k = "tag" THEN {"list_relation", "man_relation"}
    ELSE IF n.k = "stub" THEN {"relation"}
    ELSE IF n.k = "blob" THEN {"blob_relation", "config_relation"}
    ELSE {NO_RELATION}
C23_EdgeKey(n) ==
    IF dc[n].relation \in {"man_relation", "list_relation"}
    THEN <<n.t, content_data(dc[n].target)>>
    ELSE C14_Edge(n)
C23_Markers ==
    /\ \A p, q \in 1..Len(out) : out[p] = out[q] => p = q
    /\ \A p \in 1..Len(out) :
          LET n == out[p]
          IN /\ dc[n].relation \in C23_MarkersOf(n)
             /\ (dc[n].relation = NO_RELATION) = (dc[n].target = NoNode)
             /\ dc[n].target # NoNode => dc[n].target \in DOMAIN dc
C23_Step ==
    C13_ResolverStep =>
        LET n == C13_Next
            table == C23_Handler(dc[n].relation)
        IN /\ forwarded' = Append(forwarded, n)
           /\ \A p \in 1..Len(forwarded) : forwarded[p] # n
           /\ \A other \in C23_EdgeTables \ {table} :
                 store'[other] = store[other]
           /\ table = "config_blob" =>
                 /\ DOMAIN store'.config_blob =
                       DOMAIN store.config_blob
                          \cup {content_data(dc[n].target)}
                 /\ store'.config_blob[content_data(dc[n].target)]
                       = dc[n].digest
                 /\ \A key \in DOMAIN store.config_blob :
                       key # content_data(dc[n].target)
                          => store'.config_blob[key] = store.config_blob[key]
           /\ table \in C23_EdgeTables \ {"config_blob"} =>
                 /\ DOMAIN store'[table] =
                       DOMAIN store[table] \cup {C23_EdgeKey(n)}
                 /\ store'[table][C23_EdgeKey(n)] = 1
                 /\ \A key \in DOMAIN store[table] :
                       store'[table][key] = store[table][key]
C23_OneMarkerOneWrite == []C23_Markers /\ [][C23_Step]_vars

(* a completed run that forwarded a list and a tagged manifest, without   *)
(* marker, and a tag, a stub, a layer and a config blob with theirs       *)
C23_Witness ==
    /\ Completed
    /\ \A k \in {"list", "man", "tag", "stub", "blob"} :
          \E p \in 1..Len(forwarded) : forwarded[p].k = k
    /\ \A r \in {NO_RELATION, "relation", "blob_relation", "config_relation",
                 "list_relation", "man_relation"} :
          \E p \in 1..Len(forwarded) : dc[forwarded[p]].relation = r

(* C24: for every stub whose future the Builder has awaited, blob          *)
(* discovery has run once, on the stub's own payload, and every blob it    *)
(* found carries a marker that names that stub; a finished Builder has     *)
(* done so for every stub it registered, also for stubs of equal digest    *)
(* in different lists.                                                     *)
C24_Stub(n) == Node("stub", n.t, n.i, 0)
C24_Found(m) == {n \in DOMAIN dc : n.k = "blob" /\ n.i > 0 /\ C24_Stub(n) = m}
C24_Awaited(m) == \E p \in 1..awaited : resolved[p] = m
C24_Expected(m) ==
    Len(SelectSeq(content_data(m).layers, _include_layer)) + 1
C24_OwnBlobs ==
    \A i \in 1..Len(future_manifests) :
        LET m == future_manifests[i]
        IN /\ \A n \in C24_Found(m) :
                 /\ C24_Awaited(m)
                 /\ dc[n].target = m
                 /\ dc[n].relation \in {"blob_relation", "config_relation"}
           /\ (C24_Awaited(m) /\ error = "") =>
                 /\ Cardinality(C24_Found(m)) = C24_Expected(m)
                 /\ Cardinality({p \in 1..Len(put_later_blob_dc) :
                                    put_later_blob_dc[p] \in C24_Found(m)})
                       = C24_Expected(m)
                 /\ Cardinality({n \in DOMAIN dc :
                        n.k = "blob" /\ dc[n].target = m}) = C24_Expected(m)
           /\ bpc = "finished" => C24_Awaited(m)

(* two tags serve lists that have a member of the same digest; the run     *)
(* completed, the blobs found when the future of the first stub resolved   *)
(* name the second stub, and no blob names the first                       *)
C24_Witness ==
    /\ Completed
    /\ DOMAIN registry = {1, 2}
    /\ IsList(1) /\ IsList(2)
    /\ LET a == Node("stub", 1, 1, 0)
           b == Node("stub", 2, 1, 0)
       IN /\ a \in DOMAIN dc /\ b \in DOMAIN dc
          /\ content_data(a) = content_data(b)
          /\ C24_Found(a) # {}
          /\ \A n \in C24_Found(a) : dc[n].target = b
          /\ \A n \in DOMAIN dc : n.k = "blob" => dc[n].target # a

(* C25: the result of a tag whose payload has a mediaType that is neither *)
(* that of a manifest nor that of a manifest list is dropped like one     *)
(* without mediaType: taking it up makes no node, puts nothing and raises *)
(* nothing, the Builder goes on with the next result, and a Builder that  *)
(* finished has put the Tag of every classified tag.                      *)
C25_Unsupported(t) == registry[t].mediaType = OTHER_MEDIA
C25_Step ==
    \A t \in DOMAIN registry :
        (C5_TakesUp(t) /\ C25_Unsupported(t))
           => /\ dc' = dc
              /\ out' = out
              /\ future_manifests' = future_manifests
              /\ error' = ""
              /\ bpc' = IF done' # {} THEN "loop"
                        ELSE IF to_download # {} THEN "wait" ELSE "futures"
C25_NoNodes ==
    /\ \A n \in DOMAIN dc : ~C25_Unsupported(n.t)
    /\ (\E t \in DOMAIN registry : C25_Unsupported(t)) => error = ""
    /\ bpc = "finished"
          => \A t \in DOMAIN registry :
                Classified(t) => PutBefore(out, TagNode(t), Len(out) + 1)
C25_DropsUnsupported == []C25_NoNodes /\ [][C25_Step]_vars

(* of two tags the first serves a document of another media type, the     *)
(* second a manifest: the Builder aborted in create_tag on the first, and *)
(* the second, though fetched, was never processed                        *)
C25_Witness ==
    /\ DOMAIN registry = {1, 2}
    /\ C25_Unsupported(1)
    /\ IsManifest(2)
    /\ bpc = "aborted"
    /\ error = "UnboundLocalError"
    /\ cur = 1
    /\ 2 \in done
    /\ dc = EmptyTable
    /\ out = <<>>

(* C26, as stated: every tagged Manifest node that was put carries a       *)
(* marker that names its Tag node, and the Resolver step that processes    *)
(* the Manifest node sets the tag's target.                                *)
C26_Manifests == {n \in DOMAIN dc : n.k = "man"}
C26_Put(n) == PutBefore(out, n, Len(out) + 1)
C26_Forwarded(n) == PutBefore(forwarded, n, Len(forwarded) + 1)
C26_Marker ==
    \A m \in C26_Manifests :
        LET tag == TagNode(m.t)
        IN /\ C26_Put(m)
           /\ dc[m].relation = NO_RELATION /\ dc[m].target = NoNode
           /\ C26_Put(tag) =>
                 /\ dc[tag].relation = "man_relation"
                 /\ dc[tag].target = m
                 /\ \E p \in 1..Len(out) : out[p] = tag /\ PutBefore(out, m, p)
           /\ dc[tag].target_set = C26_Forwarded(tag)
           /\ C26_Forwarded(tag) =>
                 <<m.t, content_data(m)>> \in DOMAIN store.ManifestTag
C26_Step ==
    C13_ResolverStep =>
        /\ C13_Next.k = "man" =>
              /\ store'.ManifestTag = store.ManifestTag
              /\ \A n \in C12_TagNodes : dc'[n] = dc[n]
        /\ (C13_Next.k = "tag" /\ IsManifest(C13_Next.t)) =>
              /\ dc'[C13_Next].target_set
              /\ ~dc[C13_Next].target_set
              /\ <<C13_Next.t, content_data(dc[C13_Next].target)>>
                    \in DOMAIN store'.ManifestTag
C27_IsBlob(n) == n.k = "blob"
C27_BlobsPut == SelectSeq(out, C27_IsBlob)
C27_LaterPass ==
    /\ awaited > 0 =>
          /\ to_download = {} /\ completed = {} /\ done = {}
          /\ bpc \in {"futures", "finished", "aborted"}
    /\ C27_BlobsPut # <<>> =>
          /\ bpc \in {"futures", "finished"}
          /\ awaited = Len(future_manifests)
          /\ \A i \in 1..Len(future_manifests) :
                C19_Resolved(future_manifests[i])
    /\ Len(C27_BlobsPut) <= Len(put_later_blob_dc)
    /\ C27_BlobsPut = SubSeq(put_later_blob_dc, 1, Len(C27_BlobsPut))
    /\ \A p, q \in 1..Len(out) :
          (C27_IsBlob(out[p]) /\ ~C27_IsBlob(out[q])) => q < p
C27_Step ==
    /\ awaited' > awaited =>
          /\ bpc = "futures"
          /\ to_download = {} /\ done = {}
          /\ C27_BlobsPut = <<>>
    /\ Len(out') > Len(out) /\ C27_IsBlob(out'[Len(out')]) =>
          /\ awaited = Len(future_manifests)
          /\ put_later_blob_dc' = put_later_blob_dc
C27_BlobsLast == []C27_LaterPass /\ [][C27_Step]_vars

(* a manifest and a list were synchronized: the blobs of the tagged       *)
(* manifest, found while the tags were processed, were put after the      *)
(* future of the stub was awaited, before the blobs of the stub and after  *)
(* every other node                                                        *)
C27_Witness ==
    /\ bpc = "finished"
    /\ \E a, b \in DOMAIN registry :
          /\ IsManifest(a) /\ IsList(b)
          /\ Len(future_manifests) = 1
          /\ \E p, q \in 1..Len(out) :
                /\ p < q
                /\ out[p] = Node("blob", a, 0, 1)
                /\ out[q] = Node("blob", b, 1, 1)
                /\ \A r \in 1..(p - 1) : ~C27_IsBlob(out[r])
                /\ PutBefore(out, TagNode(a), p)
                /\ PutBefore(out, TagNode(b), p)

====
